---- MODULE Spec2Model ----
(***************************************************************************)
(* Versioned snapshot stores and the round-robin cursor of the Islington   *)
(* housing scrapers.                                                       *)
(*                                                                         *)
(*   registry store : src/scrapers/registry_scraper.py  (save_results)     *)
(*   RightMove store: src/scrapers/rightmove.py          (run, _has_changed,*)
(*                                                       _get_next_version)*)
(*   cursor / main  : src/scrape_registry.py                               *)
(*                                                                         *)
(* A version file is a record with a "kind" field: kind "json" files carry *)
(* the serialized mapping in "data"; kind "malformed" is a file whose text *)
(* does not parse (a write that failed part-way leaves a strict prefix of  *)
(* the JSON text, which never parses).                                     *)
(***************************************************************************)
EXTENDS Integers, Sequences, FiniteSets, TLC

VARIABLES
    script,          \* the script the behaviour follows: "registry" or "rightmove"
    regFiles,        \* register-output/: licence number -> (ordinal -> file)
    rmFiles,         \* output/properties/: property id -> (ordinal -> file)
    created,         \* number of version files created so far (model bound)
    last,            \* what the most recent save call did (history)
    postcodes,       \* config/property_listing_postcodes.txt as loaded
    stateFile,       \* config/registry_scraper_state.json
    pc,              \* position of scrape_registry.main
    next_postcodes,  \* main: the batch returned by get_next_postcodes
    idx,             \* main: loop index i into next_postcodes
    properties,      \* save_results: the properties still to be saved
    run,             \* history of the current run of main
    ret,             \* what the most recent direct call of
                     \* get_next_postcodes was given and did (history)
    fetched,         \* the postcode and result of the most recent fetch of
                     \* main, and how its processing went on (history)
    chk              \* the arguments and result of the most recent direct
                     \* call of a change check (history)

vars == <<script, regFiles, rmFiles, created, last, postcodes, stateFile, pc,
          next_postcodes, idx, properties, run, ret, fetched, chk>>

storeVars == <<regFiles, rmFiles, created, last>>
mainVars ==
    <<postcodes, stateFile, pc, next_postcodes, idx, properties, run, ret,
      fetched, chk>>

(***************************************************************************)
(* Bounds of the model.                                                    *)
(***************************************************************************)
\* version files a behaviour may create in total
MaxNew == 2
\* version files a behaviour of scrape_registry.main may create in total
MainMaxNew == 1
\* the count argument of a direct call of get_next_postcodes
MaxCount == 5
\* version files a behaviour with repeated fetches may create in total
RedoMaxNew == 3
\* properties one search returns in a behaviour with repeated fetches
RedoMaxProps == 2
\* top-level fields of a record handed directly to a change check
MaxFields == 2
\* length of the key list in behaviours of repeated successful runs
LongMaxKeys == 7
\* length of the key list in config/property_listing_postcodes.txt
MaxKeys == 3
\* properties one search of the register returns
MaxProps == 1

\* the values datetime.now().isoformat() takes
Times == {"2026-01-01T09:00", "2026-01-02T09:00"}

(***************************************************************************)
(* Mappings (Python dicts / JSON objects) are functions from field names.  *)
(***************************************************************************)
Missing == "<missing>"

\* dict.get(k, default)
Get(d, k, default) == IF k \in DOMAIN d THEN d[k] ELSE default

\* {k: v for k, v in d.items() if k not in ignored}
Strip(d, ignored) == [k \in (DOMAIN d) \ ignored |-> d[k]]

\* {**a, **b}: the keys of b override those of a
Merge(a, b) == [k \in (DOMAIN a) \cup (DOMAIN b) |->
                   IF k \in DOMAIN b THEN b[k] ELSE a[k]]

JsonFile(d) == [kind |-> "json", data |-> d]
MalformedFile == [kind |-> "malformed"]

NoFiles == <<>>

\* the ordinals of the stored versions of one entity
Ordinals(f) == DOMAIN f

\* the highest stored ordinal, -1 when there is none
MaxOrdinal(f) ==
    IF Ordinals(f) = {} THEN -1
    ELSE CHOOSE n \in Ordinals(f) : \A m \in Ordinals(f) : m <= n

\* open(path, "w") followed by json.dump: the outcome of the write is an
\* input ("ok", "open_fails": nothing is touched, "write_fails": the file
\* is left truncated)
IoOutcomes == {"ok", "open_fails", "write_fails"}

\* (mutant) a successful write leaves the entity with the written file only
WriteFile_replacing(f, n, d, io) ==
    CASE io = "ok"          -> (n :> JsonFile(d))
      [] io = "write_fails" -> (n :> MalformedFile) @@ f
      [] OTHER              -> f

WriteFile(f, n, d, io) ==
    CASE io = "ok"          -> (n :> JsonFile(d)) @@ f
      [] io = "write_fails" -> (n :> MalformedFile) @@ f
      [] OTHER              -> f

\* whether the write creates a file that was not there
Creates(f, n, io) == n \notin DOMAIN f /\ io # "open_fails"

\* what a save call did, for the history variable "last"
\* (tick alternates, so that every save call is a step of its own)
Did(store, id, rec, t, outcome, loaded, ord) ==
    [store |-> store, id |-> id, rec |-> rec, t |-> t,
     outcome |-> outcome, loaded |-> loaded, ord |-> ord,
     tick |-> 1 - last.tick]

NoSave ==
    [store |-> "none", id |-> Missing, rec |-> <<>>, t |-> Missing,
     outcome |-> "none", loaded |-> -1, ord |-> -1, tick |-> 0]

\* the outcome of a call that reached its write
Written(io, kind) == IF io = "ok" THEN kind ELSE "write_raised"

(***************************************************************************)
(* Registry licence store: registry_scraper.save_results, one iteration of *)
(* its loop per property.                                                  *)
(***************************************************************************)
Licences == {"ISL-1"}
RegIds == Licences \cup {"unknown"}
LicenceTypes == {"HMO", "Selective"}
Keys == {"N1", "N7"}

\* the details fetch_property_details can return: with a licence number, or
\* the error mapping of its except branch, which has none
RegDetails ==
    {[licence_number |-> l, licence_type |-> ty] :
        l \in Licences, ty \in LicenceTypes}
    \cup {[error |-> "Timeout"]}

\* the properties scrape_postcode hands to save_results for postcode k,
\* with details among ds
RegPropsOf(k, ds) ==
    {[address |-> "1 High St", postcode |-> k, detail_url |-> "/p/1",
      details |-> d] : d \in ds}

RegProps(k) == RegPropsOf(k, RegDetails)

AllRegProps == UNION {RegProps(k) : k \in Keys}

\* prop.get("details", {}).get("licence_number", "unknown")
LicenceOf(prop) ==
    Get(Get(prop, "details", <<>>), "licence_number", "unknown")

PropToSave(prop, t) ==
    [address |-> Get(prop, "address", Missing),
     postcode |-> Get(prop, "postcode", Missing),
     details |-> Get(prop, "details", <<>>),
     scraped_at |-> t]

\* version = 0; while exists(f"{license_num}_{version}.json"): version += 1
RECURSIVE ScanFrom(_, _)
ScanFrom(f, version) ==
    IF version \in DOMAIN f THEN ScanFrom(f, version + 1) ELSE version

find_next_version(f) == ScanFrom(f, 0)

data_changed(new_data, old_data) ==
    Strip(new_data, {"scraped_at"}) # Strip(old_data, {"scraped_at"})

\* the file save_results writes for the property: <<ordinal, mapping, kind>>,
\* or "load_raised" when json.load of the latest version raises
RegTarget(f, prop_to_save) ==
    LET version == find_next_version(f) IN
    IF version > 0
    THEN LET latest_version == version - 1
             old == f[latest_version] IN
         IF old.kind # "json"
         THEN [do |-> "load_raised", loaded |-> latest_version, ord |-> -1,
               data |-> <<>>]
         ELSE IF data_changed(prop_to_save, old.data)
         THEN [do |-> "created", loaded |-> latest_version, ord |-> version,
               data |-> prop_to_save]
         ELSE [do |-> "touched", loaded |-> latest_version,
               ord |-> latest_version,
               data |-> Merge(old.data,
                              [scraped_at |-> prop_to_save.scraped_at])]
    ELSE [do |-> "created", loaded |-> -1, ord |-> 0, data |-> prop_to_save]

\* the outcome of the iteration: "created", "touched", or the exception
RegOutcome(prop, t, io) ==
    LET tg == RegTarget(regFiles[LicenceOf(prop)], PropToSave(prop, t)) IN
    IF tg.do = "load_raised" THEN "load_raised" ELSE Written(io, tg.do)

\* the iteration's effect on the files
RegWrite(prop, t, io, cap) ==
    LET license_num == LicenceOf(prop)
        f == regFiles[license_num]
        tg == RegTarget(f, PropToSave(prop, t)) IN
    IF tg.do = "load_raised"
    THEN UNCHANGED <<regFiles, created>>
    ELSE /\ Creates(f, tg.ord, io) => created < cap
         /\ regFiles' = [regFiles EXCEPT
                            ![license_num] = WriteFile(f, tg.ord, tg.data, io)]
         /\ created' = IF Creates(f, tg.ord, io) THEN created + 1 ELSE created

RegSave(prop, t, io) ==
    LET tg == RegTarget(regFiles[LicenceOf(prop)], PropToSave(prop, t)) IN
    /\ RegWrite(prop, t, io, MaxNew)
    /\ last' = Did("registry", LicenceOf(prop), prop, t,
                   RegOutcome(prop, t, io), tg.loaded,
                   IF tg.do = "load_raised" THEN -1 ELSE tg.ord)

\* a save call of the registry store, made directly
RegistrySave ==
    \E prop \in AllRegProps, t \in Times, io \in IoOutcomes :
        /\ script = "registry"
        /\ RegSave(prop, t, io)
        /\ UNCHANGED <<script, rmFiles>>
        /\ UNCHANGED mainVars

(***************************************************************************)
(* RightMove listing store: the loop body of RightMoveScraper.run for one  *)
(* property, with _has_changed and _get_next_version.                      *)
(***************************************************************************)
PropertyIds == {101}
Prices == {100, 120}
RmPostcodes == {"N19 3NR"}

\* the listings _extract_properties_from_html can return: the raw mapping
\* of the page, with or without an id, with or without a photos_local key
RmProps ==
    {[id |-> i, price |-> p, updateDate |-> "d1"] :
        i \in PropertyIds, p \in Prices}
    \cup {[id |-> i, price |-> p, updateDate |-> "d1",
           photos_local |-> "photo-0.jpg"] : i \in PropertyIds, p \in {100}}
    \cup {[price |-> p, updateDate |-> "d1"] : p \in {100}}

\* prop.get("id") of a listing without one is None, which "not property_id"
\* treats like the id 0
NoId == 0

\* str(n) as a sequence of decimal digits
RECURSIVE Digits(_)
Digits(n) == IF n < 10 THEN <<n>> ELSE Digits(n \div 10) \o <<n % 10>>

\* the part of the file name rightmove_{id}-{n}.json that differs between
\* the versions of one property: the digits of n, then "." (which sorts
\* before every digit), then the common "json"
NameKey(n) == Digits(n) \o <<-1>>

\* a < b for strings, as Path.__lt__ compares the names
RECURSIVE LexLess(_, _)
LexLess(a, b) ==
    IF a = <<>> THEN b # <<>>
    ELSE IF b = <<>> THEN FALSE
    ELSE IF Head(a) # Head(b) THEN Head(a) < Head(b)
    ELSE LexLess(Tail(a), Tail(b))

\* sorted(props_dir.glob(pattern))[-1], as the ordinal of that file
SortedLast(f) ==
    CHOOSE n \in DOMAIN f :
        \A m \in DOMAIN f : m = n \/ LexLess(NameKey(m), NameKey(n))

\* json.dumps(d, sort_keys=True, default=str): the keys in sorted order,
\* each with the text of its value
SortedFields ==
    <<"id", "photos_local", "postcode", "price", "scraped_at", "source",
      "updateDate">>

Dumps(d) ==
    LET ks == SelectSeq(SortedFields, LAMBDA k : k \in DOMAIN d) IN
    [j \in 1..Len(ks) |-> <<ks[j], ToString(d[ks[j]])>>]

ignore_fields == {"source", "scraped_at", "postcode", "updateDate"}

\* _has_changed: [changed, loaded], loaded the ordinal of the file it read
\* (-1 when there is none); a latest file that does not parse lands in the
\* except branch, which returns True
has_changed(f, core_prop_data) ==
    IF DOMAIN f = {} THEN [changed |-> TRUE, loaded |-> -1]
    ELSE LET latest_file == SortedLast(f)
             latest == f[latest_file] IN
         IF latest.kind # "json"
         THEN [changed |-> TRUE, loaded |-> latest_file]
         ELSE [changed |-> Dumps(Strip(latest.data, ignore_fields))
                            # Dumps(Strip(core_prop_data, ignore_fields)),
               loaded |-> latest_file]

\* (mutant) versions are numbered from 1
get_next_version_one_based(f) ==
    IF DOMAIN f = {} THEN 1 ELSE MaxOrdinal(f) + 1

\* (mutant) the new ordinal skips one after the highest
get_next_version_skipping(f) ==
    IF DOMAIN f = {} THEN 0 ELSE MaxOrdinal(f) + 2

\* _get_next_version: max of the ordinals parsed from the names, plus one
get_next_version(f) == IF DOMAIN f = {} THEN 0 ELSE MaxOrdinal(f) + 1

\* prop_json = {"source":, "scraped_at":, "postcode":, **prop_data}
PropJson(prop, t, postcode) ==
    Merge([source |-> "rightmove", scraped_at |-> t, postcode |-> postcode],
          Strip(prop, {"photos_local"}))

RmSave(prop, t, postcode, io) ==
    LET property_id == Get(prop, "id", NoId) IN
    IF property_id = NoId
    THEN /\ last' = Did("rightmove", NoId, prop, t, "dropped", -1, -1)
         /\ UNCHANGED <<rmFiles, created>>
    ELSE LET f == rmFiles[property_id]
             hc == has_changed(f, prop) IN
         IF ~hc.changed
         THEN /\ last' = Did("rightmove", property_id, prop, t,
                             "skipped", hc.loaded, -1)
              /\ UNCHANGED <<rmFiles, created>>
         ELSE LET next_version == get_next_version(f) IN
              /\ Creates(f, next_version, io) => created < MaxNew
              /\ rmFiles' = [rmFiles EXCEPT ![property_id] =
                    WriteFile(f, next_version, PropJson(prop, t, postcode), io)]
              /\ created' = IF Creates(f, next_version, io)
                            THEN created + 1 ELSE created
              /\ last' = Did("rightmove", property_id, prop, t,
                             Written(io, "created"), hc.loaded, next_version)

\* a save call of the RightMove store, made directly
RightMoveSave ==
    \E prop \in RmProps, t \in Times, k \in RmPostcodes, io \in IoOutcomes :
        /\ script = "rightmove"
        /\ RmSave(prop, t, k, io)
        /\ UNCHANGED <<script, regFiles>>
        /\ UNCHANGED mainVars

(***************************************************************************)
(* The stores under any sequence of save calls of one process.  The        *)
(* RightMove store starts empty or with the ten versions 0..9 that ten     *)
(* saves of alternating prices leave behind (see TenVersions).             *)
(***************************************************************************)
TenVersions ==
    [n \in 0..9 |->
        JsonFile(PropJson([id |-> 101,
                           price |-> IF n % 2 = 0 THEN 100 ELSE 120,
                           updateDate |-> "d1"],
                          "2026-01-01T09:00", "N19 3NR"))]

NoRun == [ended |-> "none", failed |-> Missing]

\* cut: the run was killed after the saves of the fetch and before the
\* state file was written; redo: the fetch repeats such a fetch, for the
\* same postcode and with the same result
NoFetch == [key |-> Missing, recs |-> <<>>, cut |-> FALSE, redo |-> FALSE]

NoCheck == [fn |-> "none", new |-> <<>>, old |-> <<>>, changed |-> FALSE]

NoCall == [called |-> FALSE, count |-> 0, cursor |-> Missing,
           raised |-> FALSE, keys |-> <<>>]

MainIdle ==
    /\ stateFile = [kind |-> "absent"]
    /\ pc = "idle"
    /\ next_postcodes = <<>>
    /\ idx = 0
    /\ properties = <<>>
    /\ run = NoRun
    /\ ret = NoCall
    /\ fetched = NoFetch
    /\ chk = NoCheck

\* the two scripts keep their files in different directories and never read
\* each other's: a behaviour follows the runs of one of them
StoresInit ==
    /\ script \in {"registry", "rightmove"}
    /\ regFiles = [l \in RegIds |-> NoFiles]
    /\ rmFiles \in {[i \in PropertyIds |-> NoFiles]}
                   \cup (IF script = "rightmove"
                         THEN {[i \in PropertyIds |-> TenVersions]} ELSE {})

Init ==
    /\ StoresInit
    /\ created = 0
    /\ last = NoSave
    /\ postcodes = <<>>
    /\ MainIdle

Next == RegistrySave \/ RightMoveSave

Spec == Init /\ [][Next]_vars

(***************************************************************************)
(* The save calls as steps: the entity's files before and after the call   *)
(* that last' describes.                                                   *)
(***************************************************************************)
SaveStep == last'.tick # last.tick

\* the step is a save call for an entity (a listing without an id has none)
EntityStep == SaveStep /\ last'.outcome # "dropped"

Before == IF last'.store = "registry" THEN regFiles[last'.id]
          ELSE rmFiles[last'.id]

After == IF last'.store = "registry" THEN regFiles'[last'.id]
         ELSE rmFiles'[last'.id]

\* the fields each store leaves out of the comparison
Ignored == IF last'.store = "registry" THEN {"scraped_at"} ELSE ignore_fields

\* the mapping the call would store for its record
NewRecord ==
    IF last'.store = "registry" THEN {PropToSave(last'.rec, last'.t)}
    ELSE {PropJson(last'.rec, last'.t, k) : k \in RmPostcodes}

\* the record of the call and a stored mapping are equal once the ignored
\* fields are removed
SameCore(data) == Strip(last'.rec, Ignored) = Strip(data, Ignored)

RegSameCore(data) ==
    Strip(PropToSave(last'.rec, last'.t), Ignored) = Strip(data, Ignored)

Unchanged(data) ==
    IF last'.store = "registry" THEN RegSameCore(data) ELSE SameCore(data)

\* every file of the other entities, and of the other store, stays
OthersStay ==
    /\ \A l \in RegIds :
          (last'.store = "registry" /\ l = last'.id)
          \/ regFiles'[l] = regFiles[l]
    /\ \A i \in PropertyIds :
          (last'.store = "rightmove" /\ i = last'.id)
          \/ rmFiles'[i] = rmFiles[i]

HasVersions == EntityStep /\ Ordinals(Before) # {}

LatestParses == HasVersions /\ Before[MaxOrdinal(Before)].kind = "json"

\* C1: for an entity with stored versions, a save of a record that differs
\* from the highest-ordinal version in a non-ignored field creates exactly
\* one new file, with ordinal highest + 1 and the new record as content
\* (both stores).
C1_ChangedCreatesNext ==
    [][(/\ LatestParses
        /\ ~Unchanged(Before[MaxOrdinal(Before)].data)
        /\ last'.outcome # "write_raised")
       => (/\ \E d \in NewRecord :
                 After = (MaxOrdinal(Before) + 1 :> JsonFile(d)) @@ Before
           /\ OthersStay)]_vars

\* C2: the version a save loads for the comparison is the one with the
\* numerically highest ordinal, and a new version gets that ordinal + 1.
C2_LoadsHighest ==
    [][(HasVersions /\ last'.loaded # -1)
       => (/\ last'.loaded = MaxOrdinal(Before)
           /\ last'.outcome = "created" => last'.ord = last'.loaded + 1)]_vars

\* C3: a save of a record that equals the latest version once the ignored
\* fields are removed creates no ordinal and changes nothing but the
\* scraped_at of the latest version, which becomes the new fetch time
\* (both stores).
C3_UnchangedTouchesTimestamp ==
    [][(/\ LatestParses
        /\ Unchanged(Before[MaxOrdinal(Before)].data)
        /\ last'.outcome # "write_raised")
       => (/\ After = [Before EXCEPT ![MaxOrdinal(Before)] =
                          JsonFile(Merge(@.data, [scraped_at |-> last'.t]))]
           /\ OthersStay)]_vars

\* C4: the second of two consecutive saves of the same record for the same
\* entity creates no version: the two calls add one version, never two.
C4_SecondSaveAddsNothing ==
    [][(/\ EntityStep
        /\ last.store = last'.store
        /\ last.outcome \notin {"none", "dropped", "write_raised", "load_raised"}
        /\ last'.outcome \notin {"write_raised", "load_raised"}
        /\ last.id = last'.id
        /\ last.rec = last'.rec)
       => Ordinals(After) = Ordinals(Before)]_vars

Contiguous(f) == Ordinals(f) = 0..(Cardinality(Ordinals(f)) - 1)

\* C5: in every reachable state the ordinals of each entity's stored
\* versions are 0, 1, ..., n-1, without a gap.
C5_OrdinalsContiguous ==
    /\ \A l \in RegIds : Contiguous(regFiles[l])
    /\ \A i \in PropertyIds : Contiguous(rmFiles[i])

\* C5 witness: a listing with twelve versions (ordinals of one and of two
\* digits) after a call that found it unchanged
C5_Witness ==
    /\ Cardinality(Ordinals(rmFiles[101])) = 12
    /\ last.outcome = "skipped"

\* C6: a save for an entity with no stored version stores the record, with
\* its fetch time, as version 0 and creates no other file.
C6_FirstSaveIsVersionZero ==
    [][(/\ EntityStep
        /\ Ordinals(Before) = {}
        /\ last'.outcome # "write_raised")
       => (/\ \E d \in NewRecord : After = (0 :> JsonFile(d))
           /\ \A d \in NewRecord : d.scraped_at = last'.t
           /\ last'.outcome = "created" /\ last'.ord = 0
           /\ OthersStay)]_vars

\* C6 witness: the unknown-licence entity holds exactly version 0, just
\* created
C6_Witness ==
    /\ last.store = "registry" /\ last.outcome = "created" /\ last.ord = 0
    /\ last.id = "unknown"
    /\ Ordinals(regFiles["unknown"]) = {0}
    /\ regFiles["unknown"][0].kind = "json"

\* C7: when the latest version file does not parse, save treats the record
\* as changed: it raises nothing and writes the record as the next ordinal
\* (both stores).
C7_MalformedLatestIsChanged ==
    [][(/\ HasVersions
        /\ Before[MaxOrdinal(Before)].kind = "malformed"
        /\ last'.outcome # "write_raised")
       => (/\ last'.outcome = "created"
           /\ \E d \in NewRecord :
                 After = (MaxOrdinal(Before) + 1 :> JsonFile(d)) @@ Before)]_vars

(***************************************************************************)
(* scrape_registry.py: the cursor file and main.  A run is main from its   *)
(* start to its return, to the exception that ends it, or to the moment    *)
(* the process is killed.                                                  *)
(***************************************************************************)
\* get_next_postcodes(postcodes, count=5) as main calls it
BatchSize == 5

None == "None"

SeqsUpTo(S, n) == UNION {[1..m -> S] : m \in 0..n}

\* the key lists load_postcodes can return (the file is not deduplicated;
\* a missing file gives the empty list)
KeyLists == SeqsUpTo(Keys, MaxKeys)

\* load_state()["last_postcode"]: None when there is no state file
load_state(file) == IF file.kind = "json" THEN file.last_postcode ELSE None

\* (mutant) the state is not written
save_state_skipped(state) == stateFile

\* save_state(state): json.dump of {"last_postcode": postcode}
save_state(state) == [kind |-> "json", last_postcode |-> state]

\* list.index(x): the position (from 0) of the first occurrence
IndexOf(list, x) ==
    (CHOOSE j \in 1..Len(list) :
        list[j] = x /\ \A m \in 1..(j - 1) : list[m] # x) - 1

\* (mutant) the batch starts at the last postcode itself
start_index_at_cursor(list, last_postcode) ==
    IF last_postcode = None THEN 0
    ELSE IF \E j \in 1..Len(list) : list[j] = last_postcode
         THEN IndexOf(list, last_postcode) % Len(list)
         ELSE 0

\* lines 54-61: 0 without a last postcode or when list.index raises
\* ValueError, otherwise the position after it, wrapping around
start_index(list, last_postcode) ==
    IF last_postcode = None THEN 0
    ELSE IF \E j \in 1..Len(list) : list[j] = last_postcode
         THEN (IndexOf(list, last_postcode) + 1) % Len(list)
         ELSE 0

\* (mutant) an empty list gives an empty batch instead of the ValueError
get_next_postcodes_unchecked(list, count, file) ==
    IF list = <<>> THEN [raised |-> FALSE, keys |-> <<>>]
    ELSE LET start == start_index(list, load_state(file)) IN
         [raised |-> FALSE,
          keys |-> [i \in 1..count |->
                       list[((start + (i - 1)) % Len(list)) + 1]]]

\* get_next_postcodes: raises ValueError for an empty list, otherwise
\* returns count postcodes from the start index on, wrapping around
get_next_postcodes(list, count, file) ==
    IF list = <<>> THEN [raised |-> TRUE, keys |-> <<>>]
    ELSE LET start == start_index(list, load_state(file)) IN
         [raised |-> FALSE,
          keys |-> [i \in 1..count |->
                       list[((start + (i - 1)) % Len(list)) + 1]]]

\* the register during the runs of main: one licensed property, and one
\* whose detail page fails to load
MainDetails ==
    {[licence_number |-> "ISL-1", licence_type |-> "HMO"],
     [error |-> "Timeout"]}

\* what scrape_postcode hands to save_results for postcode k: the
\* properties of the search, each with its details
FetchResults(k) == SeqsUpTo(RegPropsOf(k, MainDetails), MaxProps)

\* the postcode main is processing
Current == next_postcodes[idx + 1]

\* main up to the loop: an empty key list ends the run at once
Start ==
    /\ script = "registry" /\ pc = "idle"
    /\ IF postcodes = <<>>
       THEN /\ run' = [ended |-> "no_postcodes", failed |-> Missing]
            /\ UNCHANGED <<pc, next_postcodes, idx>>
       ELSE /\ next_postcodes' =
                   get_next_postcodes(postcodes, BatchSize, stateFile).keys
            /\ idx' = 0
            /\ pc' = "scrape"
            /\ run' = [ended |-> "none", failed |-> Missing]
    /\ UNCHANGED <<script, chk, ret, fetched, postcodes, stateFile, properties>>
    /\ UNCHANGED storeVars

\* scrape_postcode up to save_results: the search and the detail fetches
\* return the properties, or raise (main has no handler: the run ends)
ScrapeOf(results) ==
    /\ pc = "scrape"
    /\ \/ \E r \in results :
             /\ properties' = r
             /\ pc' = "save"
             /\ fetched' = [key |-> Current, recs |-> r, cut |-> FALSE,
                            redo |-> /\ fetched.cut
                                     /\ fetched.key = Current
                                     /\ fetched.recs = r]
             /\ UNCHANGED run
       \/ /\ pc' = "idle"
          /\ run' = [ended |-> "raised", failed |-> Current]
          /\ UNCHANGED <<properties, fetched>>
    /\ UNCHANGED <<script, chk, ret, postcodes, stateFile, next_postcodes, idx>>
    /\ UNCHANGED storeVars

Scrape == ScrapeOf(FetchResults(Current))

\* one iteration of the loop of save_results; an exception of json.load or
\* of the write leaves save_results, scrape_postcode and main
SaveOneUpTo(cap) ==
    /\ pc = "save" /\ properties # <<>>
    /\ \E t \in Times, io \in IoOutcomes :
          /\ RegWrite(Head(properties), t, io, cap)
          /\ IF RegOutcome(Head(properties), t, io)
                    \in {"load_raised", "write_raised"}
             THEN /\ pc' = "idle"
                  /\ run' = [ended |-> "raised", failed |-> Current]
                  /\ UNCHANGED properties
             ELSE /\ properties' = Tail(properties)
                  /\ UNCHANGED <<pc, run>>
    /\ UNCHANGED <<script, chk, ret, fetched, rmFiles, last, postcodes, stateFile,
                   next_postcodes, idx>>

SaveOne == SaveOneUpTo(MainMaxNew)

\* save_results and scrape_postcode have returned: main writes the state
\* file and moves to the next postcode of the batch, or ends after the last
SaveState ==
    /\ pc = "save" /\ properties = <<>>
    /\ stateFile' = save_state(Current)
    /\ IF idx < Len(next_postcodes) - 1
       THEN /\ idx' = idx + 1
            /\ pc' = "scrape"
            /\ UNCHANGED run
       ELSE /\ pc' = "idle"
            /\ run' = [ended |-> "completed", failed |-> Missing]
            /\ UNCHANGED idx
    /\ UNCHANGED <<script, chk, ret, fetched, postcodes, next_postcodes,
                   properties>>
    /\ UNCHANGED storeVars

\* the process is killed
Interrupt ==
    /\ pc # "idle"
    /\ pc' = "idle"
    /\ run' = [ended |-> "interrupted", failed |-> Missing]
    /\ fetched' = [fetched EXCEPT
                      !.cut = IF pc = "save" THEN properties = <<>> ELSE @]
    /\ UNCHANGED <<script, chk, ret, postcodes, stateFile, next_postcodes, idx,
                   properties>>
    /\ UNCHANGED storeVars

MainInit ==
    /\ script = "registry"
    /\ regFiles = [l \in RegIds |-> NoFiles]
    /\ rmFiles = [i \in PropertyIds |-> NoFiles]
    /\ created = 0
    /\ last = NoSave
    /\ postcodes \in KeyLists
    /\ MainIdle

MainNext == Start \/ Scrape \/ SaveOne \/ SaveState \/ Interrupt

SpecMain == MainInit /\ [][MainNext]_vars

\* C8: a failure of the extractor or of the storage while one key is
\* processed does not end the run: the remaining keys of the batch are
\* still fetched (a run that met a failure reaches the last key).
C8_FailureDoesNotEndRun ==
    ~(pc = "idle" /\ run.ended = "raised" /\ idx < BatchSize - 1)

\* C9: when the extractor or the storage raises while key k is processed,
\* the run does not write the cursor for it, and the batch of the next run
\* starts with k.
C9_FailedKeyIsRetriedFirst ==
    [][/\ (run'.ended = "raised" /\ run.ended # "raised")
            => stateFile' = stateFile
       /\ (pc = "idle" /\ run.ended = "raised" /\ pc' = "scrape")
            => next_postcodes'[1] = run.failed]_vars

\* C10: once the fetch and the saves of a key have completed, the run
\* writes that key as last_postcode (also when no record was returned or
\* all were unchanged); the cursor is written only then, after the key's
\* version writes, and before the next key of the batch is fetched.
C10_CursorAfterSavesBeforeNextFetch ==
    [][/\ (pc = "save" /\ properties = <<>> /\ run'.ended # "interrupted")
            => (load_state(stateFile') = Current /\ regFiles' = regFiles)
       /\ (stateFile' # stateFile)
            => (/\ pc = "save" /\ properties = <<>>
                /\ load_state(stateFile') = Current)
       /\ (pc' = "scrape" /\ idx' > 0)
            => load_state(stateFile') = next_postcodes'[idx']]_vars

\* C10 witness: the run is about to fetch its second key, the cursor holds
\* the first, and the first key's fetch returned no record (no file exists)
C10_Witness ==
    /\ pc = "scrape" /\ idx = 1
    /\ load_state(stateFile) = next_postcodes[1]
    /\ \A l \in RegIds : regFiles[l] = NoFiles

\* C11: when a run is interrupted, the batch of the next run starts with
\* the key the interrupted run had reached: the one that follows, in the
\* cyclic key list, the last key whose saves and cursor write completed (the
\* first key of the interrupted batch when none completed).
C11_InterruptedRunResumes ==
    [][(pc = "idle" /\ run.ended = "interrupted" /\ pc' = "scrape")
       => next_postcodes'[1] = next_postcodes[idx + 1]]_vars

(***************************************************************************)
(* The cursor on its own: get_next_postcodes and save_state called         *)
(* directly with any count, key list and state file, and runs of main that *)
(* are killed before their first fetch.                                    *)
(***************************************************************************)
CursorKeys == {"N1", "N7", "N19"}

\* the state files save_state (or a hand edit, for null) can leave
CursorFiles ==
    {[kind |-> "absent"]} \cup {save_state(k) : k \in CursorKeys \cup {None}}

\* a call get_next_postcodes(postcodes, count)
NextKeys ==
    /\ pc = "idle"
    /\ \E count \in 0..MaxCount :
          LET r == get_next_postcodes(postcodes, count, stateFile) IN
          ret' = [called |-> TRUE, count |-> count,
                  cursor |-> IF stateFile.kind = "absent" THEN Missing
                             ELSE load_state(stateFile),
                  raised |-> r.raised, keys |-> r.keys]
    /\ UNCHANGED <<script, chk, postcodes, stateFile, pc, next_postcodes, idx,
                   properties, run, fetched>>
    /\ UNCHANGED storeVars

\* a call save_state({"last_postcode": k})
Advance ==
    /\ pc = "idle"
    /\ \E k \in CursorKeys : stateFile' = save_state(k)
    /\ UNCHANGED <<script, chk, postcodes, pc, next_postcodes, idx, properties,
                   run, ret, fetched>>
    /\ UNCHANGED storeVars

KeysInit ==
    /\ script = "registry"
    /\ regFiles = [l \in RegIds |-> NoFiles]
    /\ rmFiles = [i \in PropertyIds |-> NoFiles]
    /\ created = 0
    /\ last = NoSave
    /\ postcodes \in SeqsUpTo(CursorKeys, MaxKeys)
    /\ stateFile \in CursorFiles
    /\ pc = "idle"
    /\ next_postcodes = <<>>
    /\ idx = 0
    /\ properties = <<>>
    /\ run = NoRun
    /\ ret = NoCall
    /\ fetched = NoFetch
    /\ chk = NoCheck

KeysNext == NextKeys \/ Advance \/ Start \/ Interrupt

SpecKeys == KeysInit /\ [][KeysNext]_vars

\* the persisted last key of the call ret describes: none without a state
\* file or with a null in it
LastKey == IF ret.cursor = Missing THEN None ELSE ret.cursor

\* the lowest position (from 0) at which key k occurs in the key list
FirstAt(k) ==
    CHOOSE j \in 0..(Len(postcodes) - 1) :
        /\ postcodes[j + 1] = k
        /\ \A m \in 0..(Len(postcodes) - 1) : postcodes[m + 1] = k => j <= m

ExpectedStart ==
    IF LastKey = None \/ \A j \in 1..Len(postcodes) : postcodes[j] # LastKey
    THEN 0
    ELSE (FirstAt(LastKey) + 1) % Len(postcodes)

\* C12: for a non-empty key list and any count >= 0, get_next_postcodes
\* returns exactly count keys, the i-th being list[(start + i) mod len],
\* with start 0 when the persisted last key is none, absent or not in the
\* list, and (index of the last key + 1) mod len otherwise; a count above
\* len repeats keys: [A,B,C] with count 5 and no state file gives
\* [A,B,C,A,B], with last key B and count 1 gives [C], with last key C [A].
C12_NextKeysFromCursor ==
    (ret.called /\ postcodes # <<>>) =>
        /\ ~ret.raised
        /\ Len(ret.keys) = ret.count
        /\ \A i \in 0..(ret.count - 1) :
              ret.keys[i + 1] =
                  postcodes[((ExpectedStart + i) % Len(postcodes)) + 1]
        /\ postcodes = <<"N1", "N7", "N19">> =>
              /\ (ret.cursor = Missing /\ ret.count = 5)
                    => ret.keys = <<"N1", "N7", "N19", "N1", "N7">>
              /\ (ret.cursor = "N7" /\ ret.count = 1) => ret.keys = <<"N19">>
              /\ (ret.cursor = "N19" /\ ret.count = 1) => ret.keys = <<"N1">>

\* C12 witness: a call with count 5 on a list of three keys whose last key
\* is the second: the batch wraps around and repeats keys
C12_Witness ==
    /\ ret.called /\ ret.count = 5 /\ ret.cursor = "N7"
    /\ postcodes = <<"N1", "N7", "N19">>
    /\ ret.keys = <<"N19", "N1", "N7", "N19", "N1">>

\* C13: with an empty key list get_next_postcodes raises instead of
\* returning keys (and writes nothing), and a run of main with an empty or
\* missing key list ends at once: it reaches no fetch, writes no version
\* file and leaves the state file as it was.
C13_EmptyListFailsBeforeIO ==
    [][postcodes = <<>> =>
         /\ ret'.called => (ret'.raised /\ ret'.keys = <<>>)
         /\ (ret' # ret \/ run' # run) =>
                /\ stateFile' = stateFile
                /\ regFiles' = regFiles /\ rmFiles' = rmFiles
                /\ next_postcodes' = next_postcodes
         /\ run' # run => run'.ended = "no_postcodes"
         /\ pc' = "idle"]_vars

\* C13 witness: the key list is empty, a run has ended for that reason and
\* a direct call has raised, with a state file in place
C13_Witness ==
    /\ postcodes = <<>>
    /\ run.ended = "no_postcodes"
    /\ ret.called /\ ret.raised
    /\ stateFile.kind = "json"

(***************************************************************************)
(* Runs of main over a register in which one search can return several     *)
(* properties: the licensed one, and two whose detail pages fail to load   *)
(* (both are stored under "unknown").                                      *)
(***************************************************************************)
RedoProps(k) ==
    RegPropsOf(k, MainDetails)
    \cup {[address |-> "2 High St", postcode |-> k, detail_url |-> "/p/2",
           details |-> [error |-> "Timeout"]]}

RedoResults(k) == SeqsUpTo(RedoProps(k), RedoMaxProps)

RedoScrape == ScrapeOf(RedoResults(Current))

RedoSaveOne == SaveOneUpTo(RedoMaxNew)

RedoInit ==
    /\ script = "registry"
    /\ regFiles = [l \in RegIds |-> NoFiles]
    /\ rmFiles = [i \in PropertyIds |-> NoFiles]
    /\ created = 0
    /\ last = NoSave
    /\ postcodes = <<"N1", "N7">>
    /\ MainIdle

RedoNext == Start \/ RedoScrape \/ RedoSaveOne \/ SaveState \/ Interrupt

SpecRedo == RedoInit /\ [][RedoNext]_vars

\* C14: after a run was killed between the saves of a postcode and the
\* write of the state file, the next run fetches that postcode first, and
\* when the fetch returns the same properties as before, none of its saves
\* creates a version file, whatever the properties are.
C14_RedoCreatesNoVersion ==
    [][/\ (fetched.cut /\ pc = "scrape" /\ pc' = "save")
            => fetched'.key = fetched.key
       /\ (fetched.redo /\ pc = "save")
            => \A l \in RegIds : Ordinals(regFiles'[l]) = Ordinals(regFiles[l])]_vars

\* the ordinals whose file differs between before and after the call
Rewritten ==
    {n \in Ordinals(Before) \cup Ordinals(After) :
        n \notin Ordinals(Before) \/ n \notin Ordinals(After)
        \/ Before[n] # After[n]}

\* C15: every save call performs exactly one file write: it creates one
\* new version file or rewrites the latest version in place, never none and
\* never more than one (both stores).
C15_ExactlyOneWrite ==
    [][(EntityStep /\ last'.outcome # "write_raised")
       => (/\ last'.outcome \in {"created", "touched"}
           /\ Rewritten \subseteq {last'.ord}
           /\ last'.outcome = "created" => last'.ord \notin Ordinals(Before)
           /\ last'.outcome = "touched" => last'.ord = MaxOrdinal(Before)
           /\ OthersStay)]_vars

\* C16: no save call deletes a version file or writes to a version below
\* the entity's highest ordinal: every version that is not the latest after
\* the call is exactly as it was before the call, so a version keeps the
\* content it had when it stopped being the latest (both stores, I/O
\* failures included).
C16_OldVersionsImmutable ==
    [][EntityStep
       => (/\ Ordinals(Before) \subseteq Ordinals(After)
           /\ \A n \in Ordinals(Before) :
                 n < MaxOrdinal(After) => After[n] = Before[n]
           /\ OthersStay)]_vars

\* C16 witness: a licence with two versions whose latest has just been
\* rewritten in place, version 0 still being the first record saved
C16_Witness ==
    /\ last.store = "registry" /\ last.outcome = "touched" /\ last.ord = 1
    /\ Ordinals(regFiles["ISL-1"]) = {0, 1}
    /\ regFiles["ISL-1"][0].kind = "json"
    /\ regFiles["ISL-1"][1].kind = "json"
    /\ regFiles["ISL-1"][0].data.details # regFiles["ISL-1"][1].data.details

\* C17: when the write of a save call fails (opening the file, or part-way
\* through json.dump), the call raises and the entity's stored versions are
\* exactly as before the call: no new, partial or truncated file remains
\* (both stores).
C17_FailedWriteLeavesEntity ==
    [][(EntityStep /\ last'.outcome = "write_raised")
       => (After = Before /\ OthersStay)]_vars

\* the top-level metadata of a stored record: fetch time, source tag and
\* the postcode the fetch was made for
Metadata == {"scraped_at", "source", "postcode"}

\* the record the call hands to its change check
CheckedRecord ==
    IF last'.store = "registry" THEN PropToSave(last'.rec, last'.t)
    ELSE last'.rec

\* the record the call checks and the version it compares it with are
\* equal once the metadata fields are removed
OnlyMetadataDiffers ==
    /\ EntityStep
    /\ last'.loaded \in Ordinals(Before)
    /\ Before[last'.loaded].kind = "json"
    /\ Strip(CheckedRecord, Metadata)
          = Strip(Before[last'.loaded].data, Metadata)

\* C18: a record that differs from the stored version it is compared with
\* only in top-level metadata fields (fetch time, source tag, postcode of
\* the query) is found unchanged: the save creates no version (both
\* stores).
C18_MetadataIsIgnored ==
    [][OnlyMetadataDiffers => Ordinals(After) = Ordinals(Before)]_vars

(***************************************************************************)
(* The change checks on JSON values with their key order.  The store       *)
(* sections above represent a mapping as a function, which has no key      *)
(* order; here a dict is the sequence of its <<key, value>> pairs in       *)
(* insertion order (the order of the file for a loaded record), so that    *)
(* what == and json.dumps(sort_keys=True) make of the order is computed.   *)
(***************************************************************************)
Atom(x) == [t |-> "atom", v |-> x, items |-> <<>>]
List(xs) == [t |-> "list", v |-> "", items |-> xs]
Dict(ps) == [t |-> "dict", v |-> "", items |-> ps]

KeysOf(d) == {d.items[i][1] : i \in 1..Len(d.items)}

\* d[k]
ValueOf(d, k) ==
    d.items[CHOOSE i \in 1..Len(d.items) : d.items[i][1] = k][2]

\* {k: v for k, v in d.items() if k not in ignored}
strip_top(d, ignored) ==
    Dict(SelectSeq(d.items, LAMBDA p : p[1] \notin ignored))

\* a == b of Python on JSON values: dicts are equal when they have the same
\* keys with equal values, lists when they are equal element by element
RECURSIVE py_eq(_, _)
py_eq(a, b) ==
    IF a.t # b.t THEN FALSE
    ELSE CASE a.t = "atom" -> a.v = b.v
           [] a.t = "list" ->
                /\ Len(a.items) = Len(b.items)
                /\ \A i \in 1..Len(a.items) : py_eq(a.items[i], b.items[i])
           [] OTHER ->
                /\ KeysOf(a) = KeysOf(b)
                /\ \A k \in KeysOf(a) : py_eq(ValueOf(a, k), ValueOf(b, k))

\* the field names in the order sorted() gives them
FieldOrder == <<"details", "n", "postcode", "price", "scraped_at">>

\* ", ".join(parts)
RECURSIVE Join(_)
Join(parts) ==
    IF parts = <<>> THEN <<>>
    ELSE IF Len(parts) = 1 THEN parts[1]
    ELSE parts[1] \o <<",">> \o Join(Tail(parts))

\* (mutant) json.dumps(v): the keys of a dict in insertion order
RECURSIVE json_dumps_unsorted(_)
json_dumps_unsorted(v) ==
    CASE v.t = "atom" -> <<v.v>>
      [] v.t = "list" ->
           <<"[">> \o Join([i \in 1..Len(v.items) |->
                               json_dumps_unsorted(v.items[i])]) \o <<"]">>
      [] OTHER ->
           <<"{">> \o Join([j \in 1..Len(v.items) |->
                               <<v.items[j][1], ":">>
                               \o json_dumps_unsorted(v.items[j][2])])
                  \o <<"}">>

\* json.dumps(v, sort_keys=True), as the sequence of its tokens
RECURSIVE json_dumps(_)
json_dumps(v) ==
    CASE v.t = "atom" -> <<v.v>>
      [] v.t = "list" ->
           <<"[">> \o Join([i \in 1..Len(v.items) |->
                               json_dumps(v.items[i])]) \o <<"]">>
      [] OTHER ->
           LET ks == SelectSeq(FieldOrder, LAMBDA k : k \in KeysOf(v)) IN
           <<"{">> \o Join([j \in 1..Len(ks) |->
                               <<ks[j], ":">>
                               \o json_dumps(ValueOf(v, ks[j]))])
                  \o <<"}">>

\* registry_scraper.data_changed
data_changed_json(new_data, old_data) ==
    ~py_eq(strip_top(new_data, {"scraped_at"}),
           strip_top(old_data, {"scraped_at"}))

\* the comparison of _has_changed, latest_prop_json being the loaded file
has_changed_json(core_prop_data, latest_prop_json) ==
    json_dumps(strip_top(latest_prop_json, ignore_fields))
        # json_dumps(strip_top(core_prop_data, ignore_fields))

\* the values a field can hold: nested mappings (one with a key named like
\* an ignored field), lists and scalars
Scalars == {Atom("a"), Atom("b")}

Nested ==
    {Dict(<<<<"scraped_at", Atom("a")>>>>),
     Dict(<<<<"scraped_at", Atom("b")>>>>),
     Dict(<<<<"scraped_at", Atom("a")>>, <<"n", Atom("a")>>>>),
     Dict(<<<<"n", Atom("a")>>, <<"scraped_at", Atom("a")>>>>),
     List(<<Atom("a"), Atom("b")>>),
     List(<<Atom("b"), Atom("a")>>)}

TopKeys == {"scraped_at", "postcode", "price", "details"}

FieldValues(k) == IF k = "details" THEN Nested ELSE Scalars

Fields == {<<k, v>> : k \in TopKeys, v \in Scalars \cup Nested}

\* the records: up to MaxFields fields with distinct keys, in any order
Records ==
    {Dict(ps) : ps \in
        {q \in SeqsUpTo(Fields, MaxFields) :
            /\ \A i \in 1..Len(q) : q[i][2] \in FieldValues(q[i][1])
            /\ \A i, j \in 1..Len(q) : q[i][1] = q[j][1] => i = j}}

\* a call data_changed(new_data, old_data) on the two records at hand
DataChangedCall ==
    /\ chk.fn = "none"
    /\ chk' = [chk EXCEPT !.fn = "data_changed",
                          !.changed = data_changed_json(chk.new, chk.old)]
    /\ UNCHANGED <<script, postcodes, stateFile, pc, next_postcodes, idx,
                   properties, run, ret, fetched>>
    /\ UNCHANGED storeVars

\* a call _has_changed(id, core_prop_data) with latest_prop_json on file
HasChangedCall ==
    /\ chk.fn = "none"
    /\ chk' = [chk EXCEPT !.fn = "_has_changed",
                          !.changed = has_changed_json(chk.new, chk.old)]
    /\ UNCHANGED <<script, postcodes, stateFile, pc, next_postcodes, idx,
                   properties, run, ret, fetched>>
    /\ UNCHANGED storeVars

CheckInit ==
    /\ script = "registry"
    /\ regFiles = [l \in RegIds |-> NoFiles]
    /\ rmFiles = [i \in PropertyIds |-> NoFiles]
    /\ created = 0
    /\ last = NoSave
    /\ postcodes = <<>>
    /\ stateFile = [kind |-> "absent"]
    /\ pc = "idle"
    /\ next_postcodes = <<>>
    /\ idx = 0
    /\ properties = <<>>
    /\ run = NoRun
    /\ ret = NoCall
    /\ fetched = NoFetch
    /\ chk \in {[fn |-> "none", new |-> n, old |-> o, changed |-> FALSE] :
                   n \in Records, o \in Records}

CheckNext == DataChangedCall \/ HasChangedCall

SpecCheck == CheckInit /\ [][CheckNext]_vars

\* a JSON value as a mathematical object: a mapping is a function from its
\* keys (no order), a list a sequence
RECURSIVE Structure(_)
Structure(v) ==
    CASE v.t = "atom" -> <<"atom", v.v>>
      [] v.t = "list" ->
           <<"list", [i \in 1..Len(v.items) |-> Structure(v.items[i])]>>
      [] OTHER ->
           <<"dict", [k \in KeysOf(v) |-> Structure(ValueOf(v, k))]>>

\* the structure of a record without the top-level fields in ignored
Canonical(rec, ignored) ==
    [k \in KeysOf(rec) \ ignored |-> Structure(ValueOf(rec, k))]

IgnoredBy(fn) == IF fn = "data_changed" THEN {"scraped_at"} ELSE ignore_fields

\* C19: each change check reports "differs" exactly when its two records,
\* with the ignored fields removed at the top level only, are not deeply
\* equal as structures: nested fields named like an ignored field count,
\* the order of the keys of a mapping does not, the order of the elements
\* of a list does; the call changes no file.
C19_DiffersIffNotDeeplyEqual ==
    /\ chk.fn # "none" =>
          (chk.changed <=> Canonical(chk.new, IgnoredBy(chk.fn))
                            # Canonical(chk.old, IgnoredBy(chk.fn)))
    /\ \A l \in RegIds : regFiles[l] = NoFiles
    /\ \A i \in PropertyIds : rmFiles[i] = NoFiles

\* C19 witness: _has_changed finds two records unchanged that list their
\* fields, and the fields of a nested mapping holding a scraped_at key, in
\* different orders
C19_Witness ==
    /\ chk.fn = "_has_changed" /\ ~chk.changed
    /\ chk.new = Dict(<<<<"price", Atom("a")>>,
                        <<"details", Dict(<<<<"scraped_at", Atom("a")>>,
                                            <<"n", Atom("a")>>>>)>>>>)
    /\ chk.old = Dict(<<<<"details", Dict(<<<<"n", Atom("a")>>,
                                            <<"scraped_at", Atom("a")>>>>)>>,
                        <<"price", Atom("a")>>>>)

\* C20: every record handed to the save loop is saved, once: a record
\* without an entity identifier is not dropped but stored under the
\* identifier "unknown" (both orchestrators).
C20_NoRecordIsDropped ==
    [][SaveStep
       => (/\ last'.outcome # "dropped"
           /\ (last'.store = "registry"
                /\ "licence_number" \notin DOMAIN last'.rec.details)
                 => (last'.id = "unknown" /\ Rewritten \subseteq {last'.ord}))]_vars

(***************************************************************************)
(* Repeated runs of main in which every scrape succeeds: the search and    *)
(* the detail fetches return, every write succeeds, the process is not     *)
(* killed.  The register stops returning properties once the version files *)
(* of the model are used up.  A run that has ended is followed by another, *)
(* and a run that can take a step takes it (weak fairness).                *)
(***************************************************************************)
GoodScrape ==
    /\ ScrapeOf({r \in FetchResults(Current) :
                    Len(r) <= MainMaxNew - created})
    /\ pc' = "save"

GoodSaveOne ==
    /\ SaveOneUpTo(MainMaxNew)
    /\ pc' = "save"

GoodInit ==
    /\ script = "registry"
    /\ regFiles = [l \in RegIds |-> NoFiles]
    /\ rmFiles = [i \in PropertyIds |-> NoFiles]
    /\ created = 0
    /\ last = NoSave
    /\ postcodes \in SeqsUpTo(Keys, LongMaxKeys)
    /\ MainIdle

GoodNext == Start \/ GoodScrape \/ GoodSaveOne \/ SaveState

SpecGood == GoodInit /\ [][GoodNext]_vars /\ WF_vars(GoodNext)

\* C21: with every scrape succeeding, repeated runs eventually process
\* every key of the key list (the state file is written for it), for every
\* non-empty key list, also one in which a key occurs more than once.
C21_EveryKeyProcessed ==
    \A k \in Keys :
        <>(\/ \A j \in 1..Len(postcodes) : postcodes[j] # k
           \/ load_state(stateFile) = k)

\* versions n and n + 1 of the entity with files f both parse and are equal
\* once the fields in ignored are removed
SameAdjacent(f, ignored) ==
    \E n \in Ordinals(f) :
        /\ n + 1 \in Ordinals(f)
        /\ f[n].kind = "json" /\ f[n + 1].kind = "json"
        /\ Strip(f[n].data, ignored) = Strip(f[n + 1].data, ignored)

\* C22: in every state reached by save calls, two consecutive versions of
\* an entity (ordinals n and n + 1) differ in a field the store does not
\* ignore (both stores).
C22_AdjacentVersionsDiffer ==
    /\ \A l \in RegIds : ~SameAdjacent(regFiles[l], {"scraped_at"})
    /\ \A i \in PropertyIds : ~SameAdjacent(rmFiles[i], ignore_fields)

====
